---- MODULE Spec2Model ----
(***************************************************************************)
(* A model of subtitler (src/src/subtitler_util/subtitler.py): the model   *)
(* loader init_model, the Translation Adapter translate_transcribed_result,*)
(* the transcription step, the Subtitle Writer and the run that            *)
(* process_args and subtitle drive over a batch of videos.                 *)
(*                                                                         *)
(* Python values are represented as follows.                               *)
(*   - an optional value (None or a value x) is a sequence of length at    *)
(*     most one: None is << >>, x is <<x>>;                                *)
(*   - a text is a sequence of one-character strings;                      *)
(*   - a dict, which keeps insertion order, is a sequence of records that  *)
(*     carry their key in the field id;                                    *)
(*   - a file path is a record [dir, parts]: the directory and the file    *)
(*     name split at its dots.                                             *)
(***************************************************************************)
EXTENDS Integers, Sequences, FiniteSets, TLC

VARIABLES
    args,           \* the parsed arguments (RunConfiguration), fixed for a run
    tempDirExists,  \* whether TEMP_DIR exists on disk
    tempDir,        \* TEMP_DIR: wav path -> the video whose audio the file holds
    srtFiles,       \* subtitle files on disk: srt path -> what was written
    prefFile,       \* the file .model_pref: None, or the size it holds
    vid_file_map,   \* process_args: wav path -> video path
    audio_files,    \* process_args: list of wav paths
    pc,             \* position of the run
    status,         \* "Running", "Done", "Failed", "Interrupted"
    error,          \* the exception that ended a failed run
    total_steps,    \* subtitle: total_steps
    current_step,   \* subtitle: current_step
    model,          \* subtitle: the value init_model returned
    ai,             \* subtitle: index of the audio file being processed
    ti,             \* subtitle: index of the target language being processed
    r,              \* subtitle: r, the TranscriptionResult of the current input
    r2,             \* subtitle: r2, the latest TranslatedResult
    signals,        \* the progress lines printed so far, as <<current, total>>
    events,         \* the calls made so far to the collaborators
    env             \* what the collaborators answer (model loads, provider)

vars == <<args, tempDirExists, tempDir, srtFiles, prefFile, vid_file_map,
          audio_files, pc, status, error, total_steps, current_step, model,
          ai, ti, r, r2, signals, events, env>>

---------------------------------------------------------------------------
(* Generic helpers *)

None == << >>

Some(x) == <<x>>

IsNone(o) == o = << >>

Range(s) == {s[i] : i \in 1..Len(s)}

SeqsUpTo(S, n) == UNION {[1..k -> S] : k \in 0..n}

InjSeqsUpTo(S, n) == {s \in SeqsUpTo(S, n) : \A i, j \in 1..Len(s) : i # j => s[i] # s[j]}

ButLast(s) == SubSeq(s, 1, Len(s) - 1)

---------------------------------------------------------------------------
(* init_model *)

\* The fallback list of init_model, in its order.
model_sizes == <<"large-v3-turbo", "large-v3", "large-v2", "large", "medium", "small", "base", "tiny">>

\* What whisper.load_model can do for one size: return a model, raise
\* torch.cuda.OutOfMemoryError, or raise another exception.
LoadResults == {"ok", "oom", "err"}

\* A faulty variant of load_model_pref: .model_pref wins over the size asked
\* for.
load_model_pref_file_first(model_size, pref) ==
    IF ~IsNone(pref) THEN pref
    ELSE IF ~IsNone(model_size) THEN model_size
    ELSE None

\* load_model_pref: the forced size, else the content of .model_pref, else None.
load_model_pref(model_size, pref) ==
    IF ~IsNone(model_size) THEN model_size
    ELSE IF ~IsNone(pref) THEN pref
    ELSE None

\* The sizes the fallback loop attempts, in order, under load answers `load`:
\* the loop goes on after a failed load of either kind and returns at the
\* first load that succeeds.
RECURSIVE ColdAttempts(_, _)
ColdAttempts(load, i) ==
    IF i > Len(model_sizes) THEN << >>
    ELSE IF load[model_sizes[i]] = "ok" THEN <<model_sizes[i]>>
    ELSE <<model_sizes[i]>> \o ColdAttempts(load, i + 1)

\* A faulty variant of ColdLoop: a load that fails with an exception other than
\* OutOfMemoryError ends the loop, and None is returned.
ColdLoopStopsOnError(load) ==
    LET att == ColdAttempts(load, 1)
        errs == {i \in 1..Len(att) : load[att[i]] = "err"}
        tried == IF errs = {} THEN att
                 ELSE SubSeq(att, 1, CHOOSE i \in errs : \A k \in errs : i <= k)
        got == tried # << >> /\ load[tried[Len(tried)]] = "ok"
    IN [ret |-> IF got THEN "model" ELSE "none",
        model |-> IF got THEN Some(tried[Len(tried)]) ELSE None,
        attempts |-> tried,
        saved |-> IF got THEN Some(tried[Len(tried)]) ELSE None]

\* A faulty variant of ColdLoop: when no size loads, the last exception
\* propagates instead of None being returned.
ColdLoopRaisesWhenExhausted(load) ==
    LET att == ColdAttempts(load, 1)
        got == att # << >> /\ load[att[Len(att)]] = "ok"
    IN [ret |-> IF got THEN "model" ELSE "raise",
        model |-> IF got THEN Some(att[Len(att)]) ELSE None,
        attempts |-> att,
        saved |-> IF got THEN Some(att[Len(att)]) ELSE None]

\* The else branch of init_model: the loop over model_sizes.  saved is what
\* save_model_pref writes (the loop variable, which is the closure's
\* model_size), None when nothing is written.
ColdLoop(load) ==
    LET att == ColdAttempts(load, 1)
        got == att # << >> /\ load[att[Len(att)]] = "ok"
    IN [ret |-> IF got THEN "model" ELSE "none",
        model |-> IF got THEN Some(att[Len(att)]) ELSE None,
        attempts |-> att,
        saved |-> IF got THEN Some(att[Len(att)]) ELSE None]

\* A faulty variant of init_model: when the preferred size fails to load, the
\* loop over model_sizes is tried.
init_model_falls_back(model_size, pref, load) ==
    LET p == load_model_pref(model_size, pref)
        c == ColdLoop(load)
    IN IF ~IsNone(p) /\ load[p[1]] = "ok"
       THEN [ret |-> "model", model |-> p, attempts |-> <<p[1]>>, pref |-> pref]
       ELSE [ret |-> c.ret, model |-> c.model,
             attempts |-> (IF IsNone(p) THEN << >> ELSE <<p[1]>>) \o c.attempts,
             pref |-> IF IsNone(c.saved) THEN pref ELSE c.saved]

\* init_model(model_size) with .model_pref holding pref and whisper.load_model
\* answering load.  ret is "model" (a model is returned), "none" (None is
\* returned) or "raise" (the exception of load_model propagates); pref is the
\* content of .model_pref afterwards.
init_model(model_size, pref, load) ==
    LET p == load_model_pref(model_size, pref) IN
    IF ~IsNone(p) THEN
        IF load[p[1]] = "ok"
        THEN [ret |-> "model", model |-> p, attempts |-> <<p[1]>>, pref |-> pref]
        ELSE [ret |-> "raise", model |-> None, attempts |-> <<p[1]>>, pref |-> pref]
    ELSE
        LET c == ColdLoop(load) IN
        [ret |-> c.ret, model |-> c.model, attempts |-> c.attempts,
         pref |-> IF IsNone(c.saved) THEN pref ELSE c.saved]

---------------------------------------------------------------------------
(* translate_transcribed_result *)

\* constants.SUPPORTED_TRANSLATORS: the providers init_translator dispatches on.
SUPPORTED_TRANSLATORS == {"google", "deepl", "yandex", "microsoft", "chatgpt", "libre-translate"}

\* The text "." that stands for an entry the provider returned None for.
Placeholder == <<".">>

\* init_translator: the checks made before a provider object is constructed.
\* built names the deep_translator constructor that is then called.
init_translator(translator, api_key) ==
    IF translator \notin SUPPORTED_TRANSLATORS
    THEN [ret |-> "raise", error |-> "UnsupportedTranslator", built |-> None]
    ELSE IF translator = "google"
    THEN [ret |-> "built", error |-> "", built |-> Some(translator)]
    ELSE IF IsNone(api_key)
    THEN [ret |-> "raise", error |-> "ApiKeyMissing", built |-> None]
    ELSE [ret |-> "built", error |-> "", built |-> Some(translator)]

\* A faulty variant of CopyTimes: the end time is taken from the start time.
CopyTimesSwapped(transcribed_obj) ==
    [id |-> transcribed_obj.id,
     start_time |-> transcribed_obj.start_time,
     end_time |-> transcribed_obj.start_time]

\* The first loop's body: a fresh entry under the same id with the source's
\* start_time and end_time.
CopyTimes(transcribed_obj) ==
    [id |-> transcribed_obj.id,
     start_time |-> transcribed_obj.start_time,
     end_time |-> transcribed_obj.end_time]

\* translation_cache: the texts, in the order of the dict.
TranslationCache(transcribed_result) ==
    [i \in 1..Len(transcribed_result) |-> transcribed_result[i].text]

\* The second loop: entry i takes the i-th element popped from the provider's
\* list, or the placeholder when that element is None.  pop(0) on an empty
\* list raises IndexError.
AssignTexts(copied, translated_results_cache) ==
    IF Len(translated_results_cache) < Len(copied)
    THEN [ret |-> "raise", error |-> "IndexError", result |-> << >>]
    ELSE [ret |-> "result", error |-> "",
          result |-> [i \in 1..Len(copied) |->
                        [id |-> copied[i].id,
                         start_time |-> copied[i].start_time,
                         end_time |-> copied[i].end_time,
                         text |-> IF IsNone(translated_results_cache[i])
                                  THEN Placeholder
                                  ELSE translated_results_cache[i][1]]]]

\* translate_transcribed_result.  ctor is what the provider's constructor
\* does ("ok" or "raise"), batch what translate_batch does: [kind |-> "raise"]
\* or [kind |-> "list", list |-> the list it returns].  calls lists the calls
\* made to the provider: the constructor of the named provider, translate_batch
\* with its answer.
translate_transcribed_result(transcribed_result, translator, api_key, ctor, batch) ==
    LET t == init_translator(translator, api_key) IN
    IF t.ret = "raise"
    THEN [ret |-> "raise", error |-> t.error, result |-> << >>, calls |-> << >>]
    ELSE IF ctor = "raise"
    THEN [ret |-> "raise", error |-> "ProviderError", result |-> << >>,
          calls |-> <<[op |-> "build_provider", arg |-> translator]>>]
    ELSE
        LET copied == [i \in 1..Len(transcribed_result) |-> CopyTimes(transcribed_result[i])]
            made == <<[op |-> "build_provider", arg |-> translator],
                      [op |-> "translate_batch", arg |-> batch]>>
        IN IF batch.kind = "raise"
           THEN [ret |-> "raise", error |-> "ProviderError", result |-> << >>, calls |-> made]
           ELSE LET a == AssignTexts(copied, batch.list)
                IN [ret |-> a.ret, error |-> a.error, result |-> a.result, calls |-> made]

---------------------------------------------------------------------------
(* Language names and the two vocabularies *)

UpperCase == <<"A","B","C","D","E","F","G","H","I","J","K","L","M","N","O","P","Q","R","S","T","U","V","W","X","Y","Z">>

LowerCase == <<"a","b","c","d","e","f","g","h","i","j","k","l","m","n","o","p","q","r","s","t","u","v","w","x","y","z">>

\* str.lower(), character by character.
Lower(s) ==
    [i \in 1..Len(s) |->
        IF \E k \in 1..Len(UpperCase) : UpperCase[k] = s[i]
        THEN LowerCase[CHOOSE k \in 1..Len(UpperCase) : UpperCase[k] = s[i]]
        ELSE s[i]]

english == <<"e","n","g","l","i","s","h">>

spanish == <<"s","p","a","n","i","s","h">>

french == <<"f","r","e","n","c","h">>

hebrew == <<"h","e","b","r","e","w">>

klingon == <<"k","l","i","n","g","o","n">>

\* constants.TRANSCRIPTION_SUPPORTED_LANGS: language name -> ISO code.
TRANSCRIPTION_SUPPORTED_LANGS == (english :> "en") @@ (spanish :> "es") @@ (hebrew :> "he")

\* constants.TRANSLATION_SUPPORTED_LANGS: language name -> ISO code.
TRANSLATION_SUPPORTED_LANGS == (spanish :> "es") @@ (french :> "fr") @@ (hebrew :> "iw")

---------------------------------------------------------------------------
(* transcribe_audio *)

MsPerSecond == 1000

MsPerMinute == 60000

MsPerHour == 3600000

MsPerDay == 86400000

\* format_timestamp, on a time given in milliseconds: the time of day of
\* 1900-01-01 00:00:00 plus the offset, printed as %H:%M:%S and the first
\* three digits of the microseconds.  The value is <<HH, MM, SS, mmm>>.
format_timestamp(time_in_ms) ==
    LET tod == time_in_ms % MsPerDay
    IN <<tod \div MsPerHour,
         (tod % MsPerHour) \div MsPerMinute,
         (tod % MsPerMinute) \div MsPerSecond,
         tod % MsPerSecond>>

Whitespace == {" ", "\t", "\n"}

RECURSIVE LStrip(_)
LStrip(s) == IF s # << >> /\ s[1] \in Whitespace THEN LStrip(Tail(s)) ELSE s

RECURSIVE RStrip(_)
RStrip(s) == IF s # << >> /\ s[Len(s)] \in Whitespace THEN RStrip(ButLast(s)) ELSE s

\* str.strip()
Strip(s) == RStrip(LStrip(s))

\* d[k] = v on a dict d: an existing key keeps its place, a new key goes last.
DictPut(d, v) ==
    IF \E i \in 1..Len(d) : d[i].id = v.id
    THEN [i \in 1..Len(d) |-> IF d[i].id = v.id THEN v ELSE d[i]]
    ELSE Append(d, v)

\* post_process_result_for_srt, after the first n segments.
RECURSIVE PostProcessUpTo(_, _)
PostProcessUpTo(segments, n) ==
    IF n = 0 THEN << >>
    ELSE DictPut(PostProcessUpTo(segments, n - 1),
                 [id |-> segments[n].id + 1,
                  start_time |-> format_timestamp(segments[n].start),
                  end_time |-> format_timestamp(segments[n].end),
                  text |-> Strip(segments[n].text)])

\* A faulty variant of post_process_result_for_srt: the entries keep the
\* segments' own ids.
post_process_keeps_ids(segments) ==
    LET d == PostProcessUpTo(segments, Len(segments))
    IN [k \in 1..Len(d) |-> [d[k] EXCEPT !.id = d[k].id - 1]]

post_process_result_for_srt(segments) == PostProcessUpTo(segments, Len(segments))

\* A faulty variant of transcribe_audio: the language is not validated.
transcribe_audio_unchecked(mdl, audio_file, language, engine) ==
    LET loaded == <<[op |-> "load_audio", arg |-> audio_file]>> IN
    IF IsNone(mdl)
    THEN [ret |-> "raise", error |-> "AttributeError", result |-> << >>, calls |-> loaded]
    ELSE LET called == Append(loaded, [op |-> "transcribe", arg |-> audio_file]) IN
         IF engine.kind = "raise"
         THEN [ret |-> "raise", error |-> "EngineError", result |-> << >>, calls |-> called]
         ELSE [ret |-> "result", error |-> "",
               result |-> post_process_result_for_srt(engine.segments), calls |-> called]

\* transcribe_audio(model, audio_file, language).  engine is what
\* model.transcribe does: [kind |-> "raise"] or [kind |-> "segments",
\* segments |-> the raw segments].  calls lists the steps taken: the check of
\* the language, whisper.load_audio, model.transcribe.
transcribe_audio(mdl, audio_file, language, engine) ==
    LET checked == <<[op |-> "check_language", arg |-> Lower(language)]>> IN
    IF Lower(language) \notin DOMAIN TRANSCRIPTION_SUPPORTED_LANGS
    THEN [ret |-> "raise", error |-> "UnsupportedLanguage", result |-> << >>, calls |-> checked]
    ELSE LET loaded == Append(checked, [op |-> "load_audio", arg |-> audio_file]) IN
         IF IsNone(mdl)
         THEN [ret |-> "raise", error |-> "AttributeError", result |-> << >>, calls |-> loaded]
         ELSE LET called == Append(loaded, [op |-> "transcribe", arg |-> audio_file]) IN
              IF engine.kind = "raise"
              THEN [ret |-> "raise", error |-> "EngineError", result |-> << >>, calls |-> called]
              ELSE [ret |-> "result", error |-> "",
                    result |-> post_process_result_for_srt(engine.segments), calls |-> called]

---------------------------------------------------------------------------
(* save_result_as_srt *)

\* get_lang_iso_code: the transcription vocabulary first, then the translation
\* vocabulary, else None.
get_lang_iso_code(lang) ==
    IF lang \in DOMAIN TRANSCRIPTION_SUPPORTED_LANGS THEN Some(TRANSCRIPTION_SUPPORTED_LANGS[lang])
    ELSE IF lang \in DOMAIN TRANSLATION_SUPPORTED_LANGS THEN Some(TRANSLATION_SUPPORTED_LANGS[lang])
    ELSE None

\* srt_file_name: the video's path without its last dot-separated part, then
\* "default" for the default track, the ISO code and "srt".
srt_file_name(video_file_name, iso, default_srt_file) ==
    [dir |-> video_file_name.dir,
     parts |-> ButLast(video_file_name.parts)
               \o (IF default_srt_file THEN <<"default">> ELSE << >>)
               \o <<iso, "srt">>]

\* save_result_as_srt: the name of the file and the blocks written to it, or
\* the TypeError of concatenating None when the language has no ISO code.
save_result_as_srt(result, target_language, video_file_name, default_srt_file) ==
    LET iso == get_lang_iso_code(Lower(target_language)) IN
    IF IsNone(iso)
    THEN [ret |-> "raise", error |-> "TypeError", name |-> video_file_name, body |-> << >>]
    ELSE [ret |-> "saved", error |-> "",
          name |-> srt_file_name(video_file_name, iso[1], default_srt_file),
          body |-> result]

---------------------------------------------------------------------------
(* The inputs of a run *)

MaxInputs == 2

MaxTargets == 2

\* The directory of temporary audio files (TEMP_DIR).
TEMP_DIR == "tmp"

ClipA == [dir |-> "a", parts |-> <<"clip", "mp4">>]

ClipB == [dir |-> "b", parts |-> <<"clip", "mp4">>]

Talk == [dir |-> "a", parts |-> <<"talk", "mkv">>]

\* The videos a run may be given: two that share a file name in different
\* directories, and one that shares its name with neither.
VideoPool == {ClipA, ClipB, Talk}

\* What is spoken in each video: the raw segments the engine returns for its
\* audio, with times in milliseconds.
Speech(video) ==
    IF video = ClipA THEN <<[id |-> 0, start |-> 0, end |-> 1500, text |-> <<" ", "h", "i">>]>>
    ELSE IF video = ClipB THEN <<[id |-> 0, start |-> 250, end |-> 61000, text |-> <<"y", "o", "\n">>],
                                 [id |-> 1, start |-> 61000, end |-> 3600001, text |-> <<" ">>]>>
    ELSE << >>

English == <<"E","n","g","l","i","s","h">>

RunLanguages == {english, English, klingon}

RunTargets == {spanish, french}

RunServices == {"google", "deepl", "bing"}

\* The credentials of a run: none, or a key.
RunKeys == {None, Some("k")}

RunForcedSizes == {None, Some("tiny")}

AllLoad(x) == [s \in Range(model_sizes) |-> x]

\* In a run, every load succeeds or every load runs out of memory.
RunLoads == {AllLoad("ok"), AllLoad("oom")}

\* What model.transcribe does with an audio file that holds a video's audio.
EngineAnswers(video) == {[kind |-> "segments", segments |-> Speech(video)], [kind |-> "raise"]}

CtorAnswers == {"ok", "raise"}

\* In a run the provider translates every text but the empty one, for which
\* it returns None; or it returns a list one short; or it raises.
RunTranslation(text) == IF text = << >> THEN None ELSE Some(<<"~">> \o text)

RunBatchAnswers(texts) ==
    {[kind |-> "list", list |-> [i \in 1..Len(texts) |-> RunTranslation(texts[i])]],
     [kind |-> "list", list |-> [i \in 1..(IF Len(texts) = 0 THEN 0 ELSE Len(texts) - 1) |-> RunTranslation(texts[i])]],
     [kind |-> "raise"]}

---------------------------------------------------------------------------
(* process_args and subtitle *)

\* gen_wav_file's output_audio_file: TEMP_DIR, the video's file name without
\* its last dot-separated part, and "wav".
output_audio_file(vid_file) ==
    [dir |-> TEMP_DIR, parts |-> Append(ButLast(vid_file.parts), "wav")]

\* A faulty variant of print_and_update_progress: the step is counted before
\* the line is printed.
print_after_update_progress(sig, cur, tot, mode, update_progress) ==
    LET nxt == IF update_progress THEN cur + 1 ELSE cur
    IN IF mode = "gui"
       THEN [signals |-> Append(sig, <<nxt, tot>>), current_step |-> nxt]
       ELSE [signals |-> sig, current_step |-> cur]

\* print_and_update_progress: in gui mode the line "progress: current/total"
\* is printed and then, when asked, current_step is incremented.
print_and_update_progress(sig, cur, tot, mode, update_progress) ==
    IF mode = "gui"
    THEN [signals |-> Append(sig, <<cur, tot>>),
          current_step |-> IF update_progress THEN cur + 1 ELSE cur]
    ELSE [signals |-> sig, current_step |-> cur]

\* total_steps after the model is loaded.
TotalSteps(tot, n_inputs, n_targets) == tot + (n_inputs * 2) + (n_inputs * n_targets * 2)

NInputs == Len(audio_files)

NTargets == Len(args.translation_languages)

\* An unhandled exception: the process ends where it is.
Fail(e) ==
    /\ status' = "Failed"
    /\ error' = e
    /\ pc' = "exit"

\* A faulty variant of AfterTarget: the loops are nested the other way round,
\* the next input is taken up before the next target language.
AfterTargetInputFirst(a, t) ==
    IF a < NInputs THEN <<"transcribe", a + 1, 1>>
    ELSE IF t < NTargets THEN <<"translate", a, t + 1>>
    ELSE <<"cleanup", a, t>>

\* The position after the inner loop's body for target t of input a.
AfterTarget(a, t) ==
    IF t < NTargets THEN <<"translate", a, t + 1>>
    ELSE IF a < NInputs THEN <<"transcribe", a + 1, 1>>
    ELSE <<"cleanup", a, t>>

\* process_args: one turn of the loop that calls gen_wav_file.
GenWavFile ==
    /\ pc = "gen_wav"
    /\ Len(audio_files) < Len(args.video_files)
    /\ LET f == args.video_files[Len(audio_files) + 1]
           out == output_audio_file(f)
       IN /\ vid_file_map' = (out :> f) @@ vid_file_map
          /\ tempDirExists' = TRUE
          /\ tempDir' = (out :> f) @@ tempDir
          /\ audio_files' = Append(audio_files, out)
          /\ events' = Append(events, [op |-> "gen_wav", arg |-> f])
    /\ UNCHANGED <<args, srtFiles, prefFile, pc, status, error, total_steps,
                   current_step, model, ai, ti, r, r2, signals, env>>

\* subtitle, up to the first progress line.
SubtitleStart ==
    /\ pc = "gen_wav"
    /\ Len(audio_files) = Len(args.video_files)
    /\ LET p == print_and_update_progress(signals, 1, 2, args.mode, FALSE)
       IN /\ total_steps' = 2
          /\ current_step' = p.current_step
          /\ signals' = p.signals
    /\ pc' = "init_model"
    /\ UNCHANGED <<args, tempDirExists, tempDir, srtFiles, prefFile, vid_file_map,
                   audio_files, status, error, model, ai, ti, r, r2, events, env>>

\* subtitle: model = init_model(model_size) and the progress line after it.
InitModel ==
    /\ pc = "init_model"
    /\ LET res == init_model(args.model_size, prefFile, env.load)
           p == print_and_update_progress(signals, current_step, total_steps, args.mode, TRUE)
       IN /\ events' = events \o [i \in 1..Len(res.attempts) |->
                                    [op |-> "load_model", arg |-> res.attempts[i]]]
          /\ prefFile' = res.pref
          /\ IF res.ret = "raise"
             THEN /\ Fail("LoadError")
                  /\ UNCHANGED <<model, signals, current_step>>
             ELSE /\ model' = res.model
                  /\ signals' = p.signals
                  /\ current_step' = p.current_step
                  /\ pc' = "announce"
                  /\ UNCHANGED <<status, error>>
    /\ UNCHANGED <<args, tempDirExists, tempDir, srtFiles, vid_file_map,
                   audio_files, total_steps, ai, ti, r, r2, env>>

\* subtitle: total_steps is raised and printed; the loop over audio_files is
\* entered.
Announce ==
    /\ pc = "announce"
    /\ LET tot == TotalSteps(total_steps, NInputs, NTargets)
           p == print_and_update_progress(signals, current_step, tot, args.mode, FALSE)
       IN /\ total_steps' = tot
          /\ signals' = p.signals
          /\ current_step' = p.current_step
    /\ ai' = 1
    /\ ti' = 1
    /\ pc' = IF NInputs >= 1 THEN "transcribe" ELSE "cleanup"
    /\ UNCHANGED <<args, tempDirExists, tempDir, srtFiles, prefFile, vid_file_map,
                   audio_files, status, error, model, r, r2, events, env>>

\* subtitle: r = transcribe_audio(...) for the current input, and the progress
\* line after it.  engines is the set of things model.transcribe may do.
TranscribeWith(engines) ==
    /\ pc = "transcribe"
    /\ \E engine \in engines :
        LET res == transcribe_audio(model, audio_files[ai], args.video_language, engine)
            p == print_and_update_progress(signals, current_step, total_steps, args.mode, TRUE)
        IN /\ events' = events \o res.calls
           /\ IF res.ret = "raise"
              THEN /\ Fail(res.error)
                   /\ UNCHANGED <<r, signals, current_step>>
              ELSE /\ r' = res.result
                   /\ signals' = p.signals
                   /\ current_step' = p.current_step
                   /\ pc' = "save_default"
                   /\ UNCHANGED <<status, error>>
    /\ UNCHANGED <<args, tempDirExists, tempDir, srtFiles, prefFile, vid_file_map,
                   audio_files, total_steps, model, ai, ti, r2, env>>

Transcribe == TranscribeWith(EngineAnswers(tempDir[audio_files[ai]]))

\* subtitle: the default track is written, and the progress line after it.
SaveDefault ==
    /\ pc = "save_default"
    /\ LET res == save_result_as_srt(r, args.video_language, vid_file_map[audio_files[ai]], TRUE)
           p == print_and_update_progress(signals, current_step, total_steps, args.mode, TRUE)
           nxt == AfterTarget(ai, NTargets)
       IN IF res.ret = "raise"
          THEN /\ Fail(res.error)
               /\ UNCHANGED <<srtFiles, events, signals, current_step, ai, ti>>
          ELSE /\ srtFiles' = (res.name :> [body |-> res.body, from |-> tempDir[audio_files[ai]]]) @@ srtFiles
               /\ events' = Append(events, [op |-> "write_srt", arg |-> res.name])
               /\ signals' = p.signals
               /\ current_step' = p.current_step
               /\ IF NTargets >= 1
                  THEN /\ pc' = "translate"
                       /\ ti' = 1
                       /\ ai' = ai
                  ELSE /\ pc' = nxt[1]
                       /\ ai' = nxt[2]
                       /\ ti' = 1
               /\ UNCHANGED <<status, error>>
    /\ UNCHANGED <<args, tempDirExists, tempDir, prefFile, vid_file_map,
                   audio_files, total_steps, model, r, r2, env>>

\* subtitle: r2 = translate_transcribed_result(...) for the current target
\* language, with the provider answering from batches, and the progress line
\* after it.
TranslateWith(batches) ==
    /\ pc = "translate"
    /\ \E ctor \in CtorAnswers, batch \in batches :
        LET res == translate_transcribed_result(r, args.translation_service,
                       args.translation_service_api_key, ctor, batch)
            p == print_and_update_progress(signals, current_step, total_steps, args.mode, TRUE)
        IN /\ events' = events \o res.calls
           /\ IF res.ret = "raise"
              THEN /\ Fail(res.error)
                   /\ UNCHANGED <<r2, signals, current_step>>
              ELSE /\ r2' = res.result
                   /\ signals' = p.signals
                   /\ current_step' = p.current_step
                   /\ pc' = "save_translation"
                   /\ UNCHANGED <<status, error>>
    /\ UNCHANGED <<args, tempDirExists, tempDir, srtFiles, prefFile, vid_file_map,
                   audio_files, total_steps, model, ai, ti, r, env>>

Translate == TranslateWith(RunBatchAnswers(TranslationCache(r)))

\* subtitle: the translated track is written, and the progress line after it.
SaveTranslation ==
    /\ pc = "save_translation"
    /\ LET res == save_result_as_srt(r2, args.translation_languages[ti], vid_file_map[audio_files[ai]], FALSE)
           p == print_and_update_progress(signals, current_step, total_steps, args.mode, TRUE)
           nxt == AfterTarget(ai, ti)
       IN IF res.ret = "raise"
          THEN /\ Fail(res.error)
               /\ UNCHANGED <<srtFiles, events, signals, current_step, ai, ti>>
          ELSE /\ srtFiles' = (res.name :> [body |-> res.body, from |-> tempDir[audio_files[ai]]]) @@ srtFiles
               /\ events' = Append(events, [op |-> "write_srt", arg |-> res.name])
               /\ signals' = p.signals
               /\ current_step' = p.current_step
               /\ pc' = nxt[1]
               /\ ai' = nxt[2]
               /\ ti' = nxt[3]
               /\ UNCHANGED <<status, error>>
    /\ UNCHANGED <<args, tempDirExists, tempDir, prefFile, vid_file_map,
                   audio_files, total_steps, model, r, r2, env>>

\* cleanup(): every file of TEMP_DIR is removed; os.listdir raises when the
\* directory does not exist.
cleanup ==
    IF tempDirExists
    THEN /\ tempDir' = << >>
         /\ events' = Append(events, [op |-> "cleanup", arg |-> DOMAIN tempDir])
    ELSE /\ UNCHANGED tempDir
         /\ events' = Append(events, [op |-> "cleanup_failed", arg |-> {}])

\* process_args: cleanup() after subtitle has returned.
Cleanup ==
    /\ pc = "cleanup"
    /\ cleanup
    /\ IF tempDirExists
       THEN /\ status' = "Done"
            /\ pc' = "exit"
            /\ UNCHANGED error
       ELSE Fail("FileNotFoundError")
    /\ UNCHANGED <<args, tempDirExists, srtFiles, prefFile, vid_file_map,
                   audio_files, total_steps, current_step, model, ai, ti, r, r2,
                   signals, env>>

\* signal_handler: on SIGTERM or SIGINT, cleanup() and then sys.exit(0).
Interrupt ==
    /\ pc # "exit"
    /\ cleanup
    /\ status' = "Interrupted"
    /\ pc' = "exit"
    /\ UNCHANGED <<args, tempDirExists, srtFiles, prefFile, vid_file_map,
                   audio_files, error, total_steps, current_step, model, ai, ti,
                   r, r2, signals, env>>

\* The state in which process_args is entered.
Init ==
    /\ args \in [video_files : InjSeqsUpTo(VideoPool, MaxInputs),
                 video_language : RunLanguages,
                 translation_languages : SeqsUpTo(RunTargets, MaxTargets),
                 translation_service : RunServices,
                 translation_service_api_key : RunKeys,
                 model_size : RunForcedSizes,
                 mode : {"gui", "cli"}]
    /\ env \in [load : RunLoads]
    /\ tempDirExists \in BOOLEAN
    /\ tempDir = << >>
    /\ srtFiles = << >>
    /\ prefFile = None
    /\ vid_file_map = << >>
    /\ audio_files = << >>
    /\ pc = "gen_wav"
    /\ status = "Running"
    /\ error = ""
    /\ total_steps = 0
    /\ current_step = 0
    /\ model = None
    /\ ai = 0
    /\ ti = 0
    /\ r = << >>
    /\ r2 = << >>
    /\ signals = << >>
    /\ events = << >>

Next ==
    \/ GenWavFile
    \/ SubtitleStart
    \/ InitModel
    \/ Announce
    \/ Transcribe
    \/ SaveDefault
    \/ Translate
    \/ SaveTranslation
    \/ Cleanup
    \/ Interrupt

Spec == Init /\ [][Next]_vars

---------------------------------------------------------------------------
(* init_model on its own: every answer of whisper.load_model *)

LoadingSizes == {None, Some("tiny"), Some("medium")}

LoadingPrefs == {None, Some("tiny"), Some("large")}

\* subtitle about to call init_model, with no inputs, for every forced size,
\* every content of .model_pref and every way the loads can go.
InitLoading ==
    /\ args \in [video_files : {<< >>},
                 video_language : {english},
                 translation_languages : {<< >>},
                 translation_service : {"google"},
                 translation_service_api_key : {None},
                 model_size : LoadingSizes,
                 mode : {"gui"}]
    /\ env \in [load : [Range(model_sizes) -> LoadResults]]
    /\ prefFile \in LoadingPrefs
    /\ tempDirExists = TRUE
    /\ tempDir = << >>
    /\ srtFiles = << >>
    /\ vid_file_map = << >>
    /\ audio_files = << >>
    /\ pc = "init_model"
    /\ status = "Running"
    /\ error = ""
    /\ total_steps = 2
    /\ current_step = 1
    /\ model = None
    /\ ai = 0
    /\ ti = 0
    /\ r = << >>
    /\ r2 = << >>
    /\ signals = << <<1, 2>> >>
    /\ events = << >>

SpecModel == InitLoading /\ [][InitModel]_vars

---------------------------------------------------------------------------
(* translate_transcribed_result on its own: every answer of the provider *)

MaxSegs == 2

\* Time codes, ids and texts of the entries of a TranscriptionResult.
EntryTimes == {format_timestamp(0), format_timestamp(1500)}

EntryTexts == {<<"h", "i">>, << >>}

Entries == [id : 1..MaxSegs, start_time : EntryTimes, end_time : EntryTimes, text : EntryTexts]

\* The dicts of at most MaxSegs entries: no key twice.
Transcripts == {d \in SeqsUpTo(Entries, MaxSegs) :
                    \A i, j \in 1..Len(d) : i # j => d[i].id # d[j].id}

\* The credentials of a call: none, the empty string, or a key.
CallKeys == {None, Some(""), Some("k")}

\* Every answer of translate_batch to n texts: it raises, or returns a list
\* of at most n + 1 elements, each a text or None.
AllBatchAnswers(n) ==
    {[kind |-> "raise"]}
    \cup {[kind |-> "list", list |-> l] : l \in SeqsUpTo({None, Some(<<"x">>)}, n + 1)}

\* subtitle about to call translate_transcribed_result for the first target
\* language of its only input, for every transcript, provider and credential.
InitTranslating ==
    /\ args \in [video_files : {<<ClipA>>},
                 video_language : {english},
                 translation_languages : {<<spanish>>},
                 translation_service : RunServices,
                 translation_service_api_key : CallKeys,
                 model_size : {None},
                 mode : {"cli"}]
    /\ env \in [load : {AllLoad("ok")}]
    /\ r \in Transcripts
    /\ prefFile = Some(model_sizes[1])
    /\ tempDirExists = TRUE
    /\ tempDir = (output_audio_file(ClipA) :> ClipA)
    /\ srtFiles = << >>
    /\ vid_file_map = (output_audio_file(ClipA) :> ClipA)
    /\ audio_files = <<output_audio_file(ClipA)>>
    /\ pc = "translate"
    /\ status = "Running"
    /\ error = ""
    /\ total_steps = TotalSteps(2, 1, 1)
    /\ current_step = 1
    /\ model = Some(model_sizes[1])
    /\ ai = 1
    /\ ti = 1
    /\ r2 = << >>
    /\ signals = << >>
    /\ events = << >>

TranslateCall == TranslateWith(AllBatchAnswers(Len(r)))

SpecTranslate == InitTranslating /\ [][TranslateCall]_vars

---------------------------------------------------------------------------
(* transcribe_audio on its own: every raw result of the engine *)

\* Start and end times of raw segments, in milliseconds: the last one lies
\* beyond 24 hours.
RawTimes == {0, 1500, MsPerDay + 250}

RawTexts == {<<" ", "h", "i">>, <<"y", "o", "\n">>, <<" ">>}

\* The raw results of model.transcribe with at most MaxSegs segments: segment
\* k of a result carries the id k - 1, as whisper numbers them.
RawResults ==
    UNION {{[k \in 1..n |-> [id |-> k - 1, start |-> f[k].start, end |-> f[k].end, text |-> f[k].text]] :
                f \in [1..n -> [start : RawTimes, end : RawTimes, text : RawTexts]]} :
           n \in 0..MaxSegs}

\* subtitle about to call transcribe_audio for its only input, for every raw
\* result of the engine (env.segments).
InitTranscribing ==
    /\ args \in [video_files : {<<ClipA>>},
                 video_language : {english},
                 translation_languages : {<< >>},
                 translation_service : {"google"},
                 translation_service_api_key : {None},
                 model_size : {None},
                 mode : {"cli"}]
    /\ env \in [load : {AllLoad("ok")}, segments : RawResults]
    /\ r = << >>
    /\ prefFile = Some(model_sizes[1])
    /\ tempDirExists = TRUE
    /\ tempDir = (output_audio_file(ClipA) :> ClipA)
    /\ srtFiles = << >>
    /\ vid_file_map = (output_audio_file(ClipA) :> ClipA)
    /\ audio_files = <<output_audio_file(ClipA)>>
    /\ pc = "transcribe"
    /\ status = "Running"
    /\ error = ""
    /\ total_steps = TotalSteps(2, 1, 0)
    /\ current_step = 1
    /\ model = Some(model_sizes[1])
    /\ ai = 1
    /\ ti = 1
    /\ r2 = << >>
    /\ signals = << >>
    /\ events = << >>

TranscribeCall ==
    TranscribeWith({[kind |-> "raise"], [kind |-> "segments", segments |-> env.segments]})

SpecTranscribe == InitTranscribing /\ [][TranscribeCall]_vars

---------------------------------------------------------------------------
(* save_result_as_srt on its own: every language of the two vocabularies *)

Hebrew == <<"H", "e", "b", "r", "e", "w">>

\* The languages of the default track: those of the transcription vocabulary,
\* one of them capitalised.
SavingLanguages == DOMAIN TRANSCRIPTION_SUPPORTED_LANGS \cup {English}

\* The target languages: those of the translation vocabulary, one of them
\* capitalised.
SavingTargets == DOMAIN TRANSLATION_SUPPORTED_LANGS \cup {Hebrew}

\* subtitle about to call save_result_as_srt for its only input, for the
\* default track or for the track of its only target language.
InitSaving ==
    /\ args \in [video_files : {<<v>> : v \in VideoPool},
                 video_language : SavingLanguages,
                 translation_languages : {<<t>> : t \in SavingTargets},
                 translation_service : {"google"},
                 translation_service_api_key : {None},
                 model_size : {None},
                 mode : {"cli"}]
    /\ env \in [load : {AllLoad("ok")}]
    /\ r \in {d \in Transcripts : Len(d) <= 1}
    /\ pc \in {"save_default", "save_translation"}
    /\ r2 = IF pc = "save_translation" THEN r ELSE << >>
    /\ prefFile = Some(model_sizes[1])
    /\ tempDirExists = TRUE
    /\ tempDir = (output_audio_file(args.video_files[1]) :> args.video_files[1])
    /\ srtFiles = << >>
    /\ vid_file_map = (output_audio_file(args.video_files[1]) :> args.video_files[1])
    /\ audio_files = <<output_audio_file(args.video_files[1])>>
    /\ status = "Running"
    /\ error = ""
    /\ total_steps = TotalSteps(2, 1, 1)
    /\ current_step = 1
    /\ model = Some(model_sizes[1])
    /\ ai = 1
    /\ ti = 1
    /\ signals = << >>
    /\ events = << >>

SpecSave == InitSaving /\ [][SaveDefault \/ SaveTranslation]_vars

---------------------------------------------------------------------------
(* Claims *)

\* The events of one kind, in order.
RECURSIVE EventsOf(_, _)
EventsOf(evs, ops) ==
    IF evs = << >> THEN << >>
    ELSE IF evs[Len(evs)].op \in ops
    THEN Append(EventsOf(ButLast(evs), ops), evs[Len(evs)])
    ELSE EventsOf(ButLast(evs), ops)

NoEvent(ops) == \A k \in 1..Len(events) : events[k].op \notin ops

\* C1: when translate_batch returns a list of fewer than n results for a
\* transcript of n entries, translate_transcribed_result still returns n
\* entries, and every position the list does not reach carries ".".
C1_ShortBatchIsPadded ==
    \A k \in 1..Len(events) :
        (/\ events[k].op = "translate_batch"
         /\ events[k].arg.kind = "list"
         /\ Len(events[k].arg.list) < Len(r))
        => /\ pc = "save_translation"
           /\ Len(r2) = Len(r)
           /\ \A i \in 1..Len(r) :
                i > Len(events[k].arg.list) => r2[i].text = Placeholder

\* Whether init_model has returned None to subtitle.
NoModelObtained == pc \notin {"gen_wav", "init_model"} /\ IsNone(model) /\ error # "LoadError"

\* C2: when init_model obtains no model, the run ends Failed and no input is
\* touched: no language check, no audio load, no transcription, no subtitle
\* file written.
C2_NoModelTouchesNoInput ==
    NoModelObtained /\ ~NoEvent({"load_model"})
    => /\ NoEvent({"check_language", "load_audio", "transcribe", "write_srt"})
       /\ (pc = "exit" /\ Len(audio_files) >= 1) => status \in {"Failed", "Interrupted"}

\* The fraction current/total of signal a is not above that of signal b.
FractionLeq(a, b) == a[1] * b[2] <= b[1] * a[2]

\* C3: of two successive progress signals the later is not behind the earlier,
\* in current and in current/total, and a signal printed after a completed
\* step reports a larger current than the signal before that step (every
\* signal but the third, which follows the second with no step between).
C3_ProgressMonotonic ==
    \A i \in 1..(Len(signals) - 1) :
        /\ signals[i][1] <= signals[i + 1][1]
        /\ FractionLeq(signals[i], signals[i + 1])
        /\ i # 2 => signals[i][1] < signals[i + 1][1]

\* C4: every progress signal reports the total 2 + 2*N + 2*N*M.
C4_TotalInEverySignal ==
    \A i \in 1..Len(signals) :
        signals[i][2] = 2 + 2 * Len(args.video_files)
                          + 2 * Len(args.video_files) * Len(args.translation_languages)

\* C5: a run that ends in failure has executed cleanup().
C5_FailureRunsCleanup ==
    status = "Failed" => ~NoEvent({"cleanup", "cleanup_failed"})

\* The default subtitle file of a video in the run's language.
DefaultSrtOf(video) ==
    srt_file_name(video, TRANSCRIPTION_SUPPORTED_LANGS[Lower(args.video_language)], TRUE)

\* C6: one AudioInput per selected video, each referring back to its own
\* video; after a successful run every video has its own default subtitle
\* file, written from its own audio, and TEMP_DIR is empty.
C6_EveryVideoGetsItsOwnSubtitles ==
    /\ pc \notin {"gen_wav", "exit"}
       => /\ Len(audio_files) = Len(args.video_files)
          /\ \A i \in 1..Len(audio_files) : vid_file_map[audio_files[i]] = args.video_files[i]
          /\ \A i, j \in 1..Len(audio_files) : i # j => audio_files[i] # audio_files[j]
    /\ status = "Done"
       => /\ \A i \in 1..Len(args.video_files) :
                /\ DefaultSrtOf(args.video_files[i]) \in DOMAIN srtFiles
                /\ srtFiles[DefaultSrtOf(args.video_files[i])].from = args.video_files[i]
          /\ DOMAIN tempDir = {}

\* C8: with a supported provider other than "google" and a credential that is
\* absent or empty, translate_transcribed_result fails with the configuration
\* error: no provider object is built and translate_batch is not called.
C8_NoCredentialNoProvider ==
    (/\ pc # "translate"
     /\ args.translation_service \in SUPPORTED_TRANSLATORS \ {"google"}
     /\ args.translation_service_api_key \in {None, Some("")})
    => /\ status = "Failed"
       /\ error = "ApiKeyMissing"
       /\ NoEvent({"build_provider", "translate_batch"})

\* The sizes whose load succeeds, as indices of model_sizes.
Loadable == {i \in 1..Len(model_sizes) : env.load[model_sizes[i]] = "ok"}

\* The sizes load_model was called with, in the order of the calls.
LoadsIn(evs) == LET l == EventsOf(evs, {"load_model"}) IN [i \in 1..Len(l) |-> l[i].arg]

EqIgnoreCase(a, b) ==
    /\ Len(a) = Len(b)
    /\ \A i \in 1..Len(a) :
        \/ a[i] = b[i]
        \/ \E k \in 1..Len(UpperCase) : {a[i], b[i]} = {UpperCase[k], LowerCase[k]}

DeclaredLanguageInVocabulary ==
    \E name \in DOMAIN TRANSCRIPTION_SUPPORTED_LANGS : EqIgnoreCase(args.video_language, name)

C10_TranslationKeepsIdsAndTimes ==
    [][(pc = "translate" /\ pc' = "save_translation")
       => /\ r' = r
          /\ Len(r2') = Len(r)
          /\ \A i \in 1..Len(r) :
                /\ DOMAIN r2'[i] = {"id", "start_time", "end_time", "text"}
                /\ r2'[i].id = r[i].id
                /\ r2'[i].start_time = r[i].start_time
                /\ r2'[i].end_time = r[i].end_time]_vars

\* C10's case: a translation of two entries was returned, the first with a
\* new text and with distinct start and end times.
C10_Witness ==
    /\ pc = "save_translation"
    /\ Len(r2) >= 2
    /\ r2[1].text # r[1].text
    /\ r2[1].start_time # r2[1].end_time

\* A subtitle file of the default track: <base>.default.<iso>.srt.
IsDefaultName(name) ==
    /\ Len(name.parts) >= 3
    /\ name.parts[Len(name.parts) - 2] = "default"

\* The writes of subtitle files so far, in order.
Writes == EventsOf(events, {"write_srt"})

\* The names save_result_as_srt builds for this run do not collide: no two
\* inputs share directory and base name, and no target language is repeated.
NamesDistinct ==
    /\ \A i, j \in 1..Len(args.video_files) :
           i # j => <<args.video_files[i].dir, ButLast(args.video_files[i].parts)>>
                    # <<args.video_files[j].dir, ButLast(args.video_files[j].parts)>>
    /\ \A i, j \in 1..NTargets : i # j => args.translation_languages[i] # args.translation_languages[j]

\* C11: a run over N inputs and M target languages that ends Done has
\* written N default-track files and N*M translated-track files, N*(1+M)
\* files in all, and has called translate_transcribed_result N*M times, each
\* call building one provider and sending one batch; with no target language
\* that is one file per input and no call.  Stated for the runs whose
\* subtitle names do not collide.
C11_FilesAndCallsPerRun ==
    (status = "Done" /\ NamesDistinct) =>
        LET N == Len(args.video_files)
            M == NTargets
            defaults == {name \in DOMAIN srtFiles : IsDefaultName(name)}
        IN /\ Len(Writes) = N * (1 + M)
           /\ Len(EventsOf(events, {"build_provider"})) = N * M
           /\ Len(EventsOf(events, {"translate_batch"})) = N * M
           /\ Cardinality(defaults) = N
           /\ Cardinality(DOMAIN srtFiles \ defaults) = N * M

\* The time a time code HH:MM:SS,mmm stands for, in milliseconds.
parse_timestamp(t) == t[1] * MsPerHour + t[2] * MsPerMinute + t[3] * MsPerSecond + t[4]

\* HH:MM:SS,mmm: two digits of hours, minutes and seconds below 60, three
\* digits of milliseconds.
IsTimeCode(t) ==
    /\ Len(t) = 4
    /\ t[1] \in 0..99
    /\ t[2] \in 0..59
    /\ t[3] \in 0..59
    /\ t[4] \in 0..999

RoundTrips(time_in_ms, t) ==
    /\ IsTimeCode(t)
    /\ parse_timestamp(t) - time_in_ms \in -1..1

\* C12: for every non-negative time, those of 24 hours and more included,
\* format_timestamp gives a time code HH:MM:SS,mmm that parses back to the
\* time within one millisecond.  Stated of the start and end times of every
\* segment transcribe_audio has post-processed.
C12_TimestampRoundTrips ==
    (pc = "save_default" /\ Len(r) = Len(env.segments)) =>
        \A k \in 1..Len(r) :
            /\ RoundTrips(env.segments[k].start, r[k].start_time)
            /\ RoundTrips(env.segments[k].end, r[k].end_time)

\* t is s without its leading and trailing whitespace.
IsStripOf(t, s) ==
    /\ \E i, j \in 0..Len(s) :
          /\ i + Len(t) + j = Len(s)
          /\ SubSeq(s, i + 1, i + Len(t)) = t
          /\ \A k \in 1..i : s[k] \in Whitespace
          /\ \A k \in (Len(s) - j + 1)..Len(s) : s[k] \in Whitespace
    /\ t # << >> => t[1] \notin Whitespace /\ t[Len(t)] \notin Whitespace

\* C13: for a raw result of n segments post_process_result_for_srt gives
\* exactly n entries, with the ids 1..n in the order of the segments, entry k
\* made from segment k alone: its text is the segment's text stripped, its
\* time codes are those of the segment's start and end.
C13_OneEntryPerSegment ==
    pc = "save_default" =>
        /\ Len(r) = Len(env.segments)
        /\ \A k \in 1..Len(r) :
              /\ r[k].id = k
              /\ IsStripOf(r[k].text, env.segments[k].text)
              /\ r[k].start_time = format_timestamp(env.segments[k].start)
              /\ r[k].end_time = format_timestamp(env.segments[k].end)

C13_Witness ==
    /\ pc = "save_default"
    /\ Len(r) = 2
    /\ r[1].text = <<"h", "i">>
    /\ r[2].text = << >>
    /\ env.segments[1].start # env.segments[2].start

\* C14: with a forced model size init_model calls load_model once, with that
\* size, whether .model_pref exists or not and whether the load succeeds or
\* not: the loop over model_sizes is never entered, .model_pref is left as it
\* was, and the model returned is the one of the forced size.
C14_ForcedSizeOnly ==
    [][(pc = "init_model" /\ ~IsNone(args.model_size))
       => /\ LoadsIn(events') = args.model_size
          /\ prefFile' = prefFile
          /\ IF env.load[args.model_size[1]] = "ok"
             THEN pc' = "announce" /\ model' = args.model_size
             ELSE status' = "Failed" /\ model' = model]_vars

\* C14's case: a forced size that is not the one .model_pref holds, and whose
\* load failed while other sizes would have loaded.
C14_Witness ==
    /\ args.model_size = Some("medium")
    /\ prefFile = Some("large")
    /\ env.load["medium"] = "oom"
    /\ env.load["large"] = "ok"
    /\ LoadsIn(events) = <<"medium">>
    /\ status = "Failed"

\* C15: with no forced size and no .model_pref, init_model ends after at
\* most one attempt per size of model_sizes; when every size fails, out of
\* memory or otherwise, it has attempted each size once, in order, it returns
\* None (no exception leaves it) and writes no .model_pref.
C15_ColdLoadExhausted ==
    [][(pc = "init_model" /\ IsNone(args.model_size) /\ IsNone(prefFile))
       => /\ Len(LoadsIn(events')) <= Len(model_sizes)
          /\ \A i, j \in 1..Len(LoadsIn(events')) :
                 i # j => LoadsIn(events')[i] # LoadsIn(events')[j]
          /\ Loadable = {}
             => /\ LoadsIn(events') = model_sizes
                /\ pc' = "announce"
                /\ status' = "Running"
                /\ model' = None
                /\ prefFile' = None]_vars

\* C15's case: every size failed, some out of memory and some otherwise.
C15_Witness ==
    /\ pc = "announce"
    /\ IsNone(args.model_size)
    /\ IsNone(prefFile)
    /\ IsNone(model)
    /\ LoadsIn(events) = model_sizes
    /\ \E s \in Range(model_sizes) : env.load[s] = "oom"
    /\ \E s \in Range(model_sizes) : env.load[s] = "err"

\* C19: with no forced size and a .model_pref, init_model calls load_model
\* once, with the size the file holds.  When that load fails the exception
\* leaves init_model: nothing is returned, not even None, the run ends there,
\* no other size is attempted and .model_pref is left as it was.
C19_PreferredSizeFailurePropagates ==
    [][(pc = "init_model" /\ IsNone(args.model_size) /\ ~IsNone(prefFile))
       => /\ LoadsIn(events') = prefFile
          /\ prefFile' = prefFile
          /\ IF env.load[prefFile[1]] = "ok"
             THEN pc' = "announce" /\ model' = prefFile
             ELSE /\ status' = "Failed"
                  /\ error' = "LoadError"
                  /\ pc' = "exit"
                  /\ model' = model
                  /\ signals' = signals]_vars

\* C19's case: the size of .model_pref failed to load while every other size
\* would have loaded.
C19_Witness ==
    /\ IsNone(args.model_size)
    /\ prefFile = Some("large")
    /\ env.load["large"] = "err"
    /\ \A s \in Range(model_sizes) \ {"large"} : env.load[s] = "ok"
    /\ LoadsIn(events) = <<"large">>
    /\ status = "Failed"
    /\ IsNone(model)

\* The name <base>.<iso>.srt, or <base>.default.<iso>.srt, next to the video.
SrtName(video, iso, default) ==
    [dir |-> video.dir,
     parts |-> IF default THEN ButLast(video.parts) \o <<"default", iso, "srt">>
               ELSE ButLast(video.parts) \o <<iso, "srt">>]

\* C16: save_result_as_srt names the default track <base>.default.<iso>.srt
\* with the code the transcription vocabulary gives the language, and a
\* translated track <base>.<iso>.srt with the code the translation vocabulary
\* gives the target language, also for a language that both vocabularies
\* hold with different codes; for every language of the respective vocabulary
\* the lookup succeeds and the file is written.
C16_IsoCodeOfTheTracksVocabulary ==
    LET video == args.video_files[1]
        language == Lower(args.video_language)
        target == Lower(args.translation_languages[1])
    IN /\ (pc = "translate" /\ language \in DOMAIN TRANSCRIPTION_SUPPORTED_LANGS)
          => DOMAIN srtFiles = {SrtName(video, TRANSCRIPTION_SUPPORTED_LANGS[language], TRUE)}
       /\ (pc = "cleanup" /\ target \in DOMAIN TRANSLATION_SUPPORTED_LANGS)
          => DOMAIN srtFiles = {SrtName(video, TRANSLATION_SUPPORTED_LANGS[target], FALSE)}
       /\ status # "Failed"

\* The errors of the configuration: a provider that is not supported, a
\* provider that needs a key and has none, a language the engine does not
\* know.
ConfigurationErrors == {"UnsupportedTranslator", "ApiKeyMissing", "UnsupportedLanguage"}

\* C17: a run that ends with an error of the configuration has ended before
\* load_model was called, before any transcription and before any subtitle
\* file was written.
C17_ConfigurationErrorsBeforeWork ==
    (status = "Failed" /\ error \in ConfigurationErrors)
        => NoEvent({"load_model", "transcribe", "write_srt"})

\* The steps of the pipeline so far, in order: transcriptions, translations
\* and writes of subtitle files.
Steps == EventsOf(events, {"transcribe", "translate_batch", "write_srt"})

\* The k-th step of a run that goes through audio_files in order and, for
\* each input, transcribes, writes the default track, and then translates and
\* writes for each target language in the order given.  arg is the audio
\* transcribed or the file written; of a translation only the place counts.
StepAt(k) ==
    LET block == 2 + 2 * NTargets
        a == ((k - 1) \div block) + 1
        j == (k - 1) % block
        video == vid_file_map[audio_files[a]]
    IN IF j = 0 THEN [op |-> "transcribe", arg |-> audio_files[a]]
       ELSE IF j = 1
       THEN [op |-> "write_srt",
             arg |-> SrtName(video, get_lang_iso_code(Lower(args.video_language))[1], TRUE)]
       ELSE IF j % 2 = 0 THEN [op |-> "translate_batch", arg |-> << >>]
       ELSE [op |-> "write_srt",
             arg |-> SrtName(video,
                        get_lang_iso_code(Lower(args.translation_languages[(j - 1) \div 2]))[1],
                        FALSE)]

\* C18: the run goes strictly forward.  Every call of load_model comes before
\* the first step on an input, at most one of them loads a model, and that
\* model is the one every transcription uses.  The steps on the inputs are,
\* in this order: for each input in list order its transcription and the
\* write of its default track, then for each target language in the
\* caller's order its translation and the write of its track; so no step on
\* a later input comes before the last write of an earlier one, and no
\* translation before the write of the transcript it translates.
C18_StrictForwardTraversal ==
    LET steps == Steps
        loads == LoadsIn(events)
    IN /\ \A k \in 2..Len(events) :
              events[k].op \in {"gen_wav", "load_model"}
                  => events[k - 1].op \in {"gen_wav", "load_model"}
       /\ Cardinality({k \in 1..Len(loads) : env.load[loads[k]] = "ok"}) <= 1
       /\ steps # << >> => model = Some(loads[Len(loads)])
       /\ Len(steps) <= NInputs * (2 + 2 * NTargets)
       /\ \A k \in 1..Len(steps) :
              LET step == StepAt(k)
              IN /\ steps[k].op = step.op
                 /\ steps[k].op # "translate_batch" => steps[k].arg = step.arg

\* C18's case: a run over two inputs and two target languages that went
\* through all twelve steps after a cold load that needed no second attempt.
C18_Witness ==
    /\ status = "Done"
    /\ args.video_files = <<Talk, ClipA>>
    /\ args.translation_languages = <<french, spanish>>
    /\ Len(Steps) = 12
    /\ Len(LoadsIn(events)) = 1

\* C20: in gui mode no progress line carries a current step beyond its
\* total.  When a run over at least one input ends Done, current_step has
\* reached total_steps, while the last line printed carries total_steps - 1:
\* every line is printed before its step is counted, so no line of such a
\* run says current = total.
C20_ProgressStopsOneShort ==
    args.mode = "gui" =>
        /\ \A k \in 1..Len(signals) : signals[k][1] <= signals[k][2]
        /\ (status = "Done" /\ NInputs >= 1) =>
              /\ current_step = total_steps
              /\ signals[Len(signals)] = <<total_steps - 1, total_steps>>
              /\ \A k \in 1..Len(signals) : signals[k][1] # signals[k][2]

\* C20's case: a gui run over two inputs and a target language that ended
\* Done.
C20_Witness ==
    /\ args.mode = "gui"
    /\ status = "Done"
    /\ NInputs = 2
    /\ NTargets = 1
    /\ current_step = 10
    /\ signals[Len(signals)] = <<9, 10>>

====
